---- MODULE Spec2Model ----
(***************************************************************************)
(* video2ascii: the useVideoToAscii core hook (render loop, effect         *)
(* registry, WebGL resource lifecycle) as a state machine.                 *)
(*                                                                         *)
(* JavaScript is single-threaded: every handler below runs to completion,  *)
(* so each handler is one atomic action.  The <video> element is the       *)
(* external frame source: it changes its transport attributes first and    *)
(* delivers the matching DOM event later, through an event queue.          *)
(***************************************************************************)
EXTENDS Integers, Sequences, FiniteSets, TLC

\* ---------------------------------------------------------------- bounds
MaxQueue   == 1    \* DOM events queued and not yet dispatched
MaxPending == 2    \* requestAnimationFrame callbacks outstanding at once
MaxInits   == 2    \* successful initWebGL runs (each allocates GPU objects)
MaxClicks  == 9    \* clicks delivered to useAsciiRipple's onClick
MaxTime    == 3    \* time units performance.now() advances
MaxVideoSide == 6  \* video width and height, in pixels
MaxColumns == 4    \* numColumns
MaxGlyphs  == 10   \* glyphs in a charset
MaxAtlasCells == 3 \* glyphs in a charset whose atlas is built cell by cell
MaxFontSize == 3   \* fontSize, in pixels
MaxTrail   == 2    \* the u_trail slots (24 in the source) and the largest trailLength
MaxCalls   == 6    \* video.play() calls, and video.pause() calls, made by the component
MaxPlays   == 6    \* play events the video fires
MaxToggles == 3    \* toggle() calls
MaxWindow  == 3    \* entries the frame-time window keeps (60 in the source)
MaxFrames  == 4    \* frames drawn between two statistics reports
MaxRequests == 3   \* video.play() calls, and video.pause() calls, made by the public API

\* ---------------------------------------------------------------- values
Null       == 0                       \* a ref holding null
CompileError == -1                    \* createProgram's failure result
Ids        == {"mouse", "ripple"}      \* effect ids used by the feature hooks
Callbacks  == {"A", "B"}               \* distinct setter closures
NoThrow    == "none"                   \* no setter throws in this tick
Events     == {"loadedmetadata", "play", "pause", "ended"}
InitFailures == {"ok", "context", "vertex", "fragment", "link"}
MAX_RIPPLES == 8                       \* capacity of the ripple list
\* the fields of UniformLocations: the uniforms the program declares
UniformNames ==
  { "u_video", "u_asciiAtlas", "u_resolution", "u_charSize", "u_gridSize",
    "u_numChars", "u_colored", "u_blend", "u_highlight", "u_brightness",
    "u_mouse", "u_mouseRadius", "u_trailLength", "u_trail",
    "u_time", "u_rippleEnabled", "u_rippleSpeed", "u_ripples",
    "u_audioLevel", "u_audioReactivity", "u_audioSensitivity" }

VARIABLES
  mounted,              \* component mounted: videoRef/canvasRef populated, listeners attached
  metadataLoaded,       \* video.videoWidth/videoHeight known
  videoPaused,          \* video.paused
  videoEnded,           \* video.ended
  eventQueue,           \* DOM events fired by the video, not yet dispatched
  glRef,                \* 1 when glRef.current is a context, Null otherwise
  programRef,           \* handle in programRef.current
  videoTextureRef,      \* handle in videoTextureRef.current
  atlasTextureRef,      \* handle in atlasTextureRef.current
  uniformLocationsRef,  \* program handle the cached table was resolved for, or Null
  resolveCalls,         \* gl.getUniformLocation calls made for the program in programRef
  live,                 \* GPU objects created and not deleted
  deleteCalls,          \* handle -> number of gl.delete* calls issued for it
  inits,                \* number of initWebGL runs that created GPU objects
  animationRef,         \* animationRef.current (last request id, 0 initially)
  rafs,                 \* ids of scheduled render callbacks not yet run or cancelled
  uniformSettersRef,    \* the Map<string, UniformSetter>, in insertion order
  isReady,              \* React state
  isPlaying,            \* React state
  lastStep,             \* observation: what the last step did, when it was a tick or a teardown
  lastReg,              \* observation: what the last registry call displaced
  ripplesRef,           \* useAsciiRipple: ripplesRef.current, most recent first
  rippleEnabledRef,     \* useAsciiRipple: enabledRef.current
  now,                  \* performance.now() / 1000, in whole time units
  clicks,               \* clicks delivered to onClick so far
  rippleUpload,         \* observation: the u_ripples slots the last step wrote, if any
  videoWidth,           \* video.videoWidth
  videoHeight,          \* video.videoHeight
  numColumns,           \* the numColumns option
  dimensions,           \* React state: the grid {cols, rows} handed to the shader
  baseBrightness,       \* fragment shader: luminance of the video pixel
  u_audioLevel,         \* uniform
  u_audioReactivity,    \* uniform
  u_audioSensitivity,   \* uniform
  u_brightness,         \* uniform: the user's brightness multiplier
  u_numChars,           \* uniform: number of glyphs in the atlas
  brightness,           \* fragment shader: the audio-modulated brightness
  charIndex,            \* fragment shader: the glyph index sampled from the atlas
  glyphs,               \* the glyphs of the selected charset, as code points, dark to bright
  fontSize,             \* the fontSize option
  atlas,                \* the canvas createAsciiAtlas drew, or NoAtlas
  isPlayingProp,        \* Video2Ascii: the isPlaying prop
  autoPlay,             \* Video2Ascii: the autoPlay prop
  playCalls,            \* video.play() calls made by the playback effect
  pauseCalls,           \* video.pause() calls made by the playback effect
  lastCall,             \* observation: what the playback effect's last run called
  mouseRef,             \* useAsciiMouseEffect: mouseRef.current, -1 outside the container
  trailRef,             \* useAsciiMouseEffect: trailRef.current, most recent first
  trailLengthRef,       \* useAsciiMouseEffect: trailLengthRef.current
  volumeRef,            \* useAsciiAudio: volumeRef.current
  uniformState,         \* the values of the program's dynamic uniforms
  setterOrder,          \* observation: the setters the last tick ran, in order
  audioEnabled,         \* useAsciiAudio: the enabled option (the play listener is attached)
  audioContextRef,      \* useAsciiAudio: 1 when audioContextRef.current is a context
  analyzerRef,          \* useAsciiAudio: the analyser in analyzerRef.current, or Null
  sourceRef,            \* useAsciiAudio: the source node in sourceRef.current, or Null
  connectedVideoRef,    \* useAsciiAudio: connectedVideoRef.current
  plays,                \* play events the video fired so far
  transportRequests,    \* video.play() / video.pause() calls that have not taken effect yet
  toggles,              \* toggle() calls so far
  playReqs,             \* video.play() calls made by play() and toggle()
  pauseReqs,            \* video.pause() calls made by pause() and toggle()
  origin,               \* observation: video.paused as read by the last toggles made with no call pending
  frameCountRef,        \* frameCountRef.current
  frameTimesRef,        \* frameTimesRef.current, oldest first
  lastFpsTimeRef,       \* lastFpsTimeRef.current, in the units of now
  stats,                \* React state: the exposed {fps, frameTime}
  delivered,            \* observation: what the last step passed to onStats, if anything
  lastTick              \* observation: how the last step's tick ended, if it was a tick

coreVars == << mounted, metadataLoaded, videoPaused, videoEnded, eventQueue, glRef,
           programRef, videoTextureRef, atlasTextureRef, uniformLocationsRef,
           resolveCalls,
           live, deleteCalls, inits, animationRef, rafs, uniformSettersRef,
           isReady, isPlaying, lastStep, lastReg >>

\* useAsciiRipple's state
rippleVars == << ripplesRef, rippleEnabledRef, now, clicks, rippleUpload >>

\* the state of the feature hooks and pure helpers, outside the core hook
\* the inputs and the result of calculateGridDimensions
gridVars == << videoWidth, videoHeight, numColumns, dimensions >>

\* one invocation of the fragment shader: its inputs and what it computed
fragInputs == << baseBrightness, u_audioLevel, u_audioReactivity,
                 u_audioSensitivity, u_brightness, u_numChars >>
fragVars == << fragInputs, brightness, charIndex >>

\* the inputs and the result of createAsciiAtlas
atlasVars == << glyphs, fontSize, atlas >>

\* the Video2Ascii component's playback effect: its props and its calls
playbackVars == << isPlayingProp, autoPlay, playCalls, pauseCalls, lastCall >>

\* the dynamic uniforms and the host state the mouse and audio setters read
uniformVars == << mouseRef, trailRef, trailLengthRef, volumeRef, uniformState,
                 setterOrder >>

\* useAsciiAudio's audio graph
audioVars == << audioEnabled, audioContextRef, analyzerRef, sourceRef,
               connectedVideoRef, plays >>

\* the hooks whose steps are independent of every other hook's state
\* the public transport API: play(), pause(), toggle()
transportVars == << transportRequests, toggles, playReqs, pauseReqs, origin >>

\* the statistics phase of render
statsVars == << frameCountRef, frameTimesRef, lastFpsTimeRef, stats, delivered,
               lastTick >>

extraVars == << audioVars, transportVars, statsVars >>

hookVars == << rippleVars, gridVars, fragVars, atlasVars, playbackVars,
              uniformVars, extraVars >>

\* the core hook's state without isReady, which the component reads
coreNotReady == << mounted, metadataLoaded, videoPaused, videoEnded, eventQueue,
                   glRef, programRef, videoTextureRef, atlasTextureRef,
                   uniformLocationsRef, resolveCalls, live, deleteCalls, inits,
                   animationRef, rafs, uniformSettersRef, isPlaying, lastStep,
                   lastReg >>

\* everything a step of one hook leaves alone
notRipple == << coreVars, gridVars, fragVars, atlasVars, playbackVars,
               uniformVars, extraVars >>
notGrid   == << coreVars, rippleVars, fragVars, atlasVars, playbackVars,
               uniformVars, extraVars >>
notFrag   == << coreVars, rippleVars, gridVars, atlasVars, playbackVars,
               uniformVars, extraVars >>
notAtlas  == << coreVars, rippleVars, gridVars, fragVars, playbackVars,
               uniformVars, extraVars >>
notPlayback == << coreNotReady, rippleVars, gridVars, fragVars, atlasVars,
                 uniformVars, extraVars >>
\* the core hook's state without video.paused
coreNotPaused == << mounted, metadataLoaded, videoEnded, eventQueue, glRef,
                    programRef, videoTextureRef, atlasTextureRef,
                    uniformLocationsRef, resolveCalls, live, deleteCalls, inits,
                    animationRef, rafs, uniformSettersRef, isReady, isPlaying,
                    lastStep, lastReg >>
notAudio == << coreNotPaused, rippleVars, gridVars, fragVars, atlasVars,
              playbackVars, uniformVars, transportVars, statsVars >>
\* the core hook's state without the video element and video.paused
coreNotVideo == << metadataLoaded, videoEnded, eventQueue, glRef,
                   programRef, videoTextureRef, atlasTextureRef,
                   uniformLocationsRef, resolveCalls, live, deleteCalls, inits,
                   animationRef, rafs, uniformSettersRef, isReady, isPlaying,
                   lastStep, lastReg >>
notTransport == << coreNotVideo, rippleVars, gridVars, fragVars, atlasVars,
                  playbackVars, uniformVars, audioVars, statsVars >>
notStats == << coreNotPaused, gridVars, fragVars, atlasVars, playbackVars,
              uniformVars, audioVars, transportVars >>
notUniforms == << coreVars, gridVars, fragVars, atlasVars, playbackVars,
                 extraVars >>

vars == << coreVars, hookVars >>

\* the variables of the GPU pipeline and of the scheduler, for frame conditions
gpuVars   == << glRef, programRef, videoTextureRef, atlasTextureRef,
                uniformLocationsRef, resolveCalls, live, deleteCalls, inits >>
videoVars == << metadataLoaded, videoPaused, videoEnded >>

Handles == 1 .. (3 * MaxInits)

\* ------------------------------------------------- the Map of uniform setters
Entry(id, cb) == [id |-> id, cb |-> cb]

Keys(m) == { m[i].id : i \in 1 .. Len(m) }

IndexOf(m, id) == CHOOSE i \in 1 .. Len(m) : m[i].id = id

MapGet(m, id) == m[IndexOf(m, id)].cb

\* a set() that always appends: duplicates the key
MapSetDup(m, id, cb) == Append(m, Entry(id, cb))

\* Map.prototype.set: replaces the value in place when the key exists,
\* appends the key otherwise
MapSet(m, id, cb) ==
  IF id \in Keys(m)
    THEN [i \in 1 .. Len(m) |-> IF m[i].id = id THEN Entry(id, cb) ELSE m[i]]
    ELSE Append(m, Entry(id, cb))

\* a delete() written with splice(indexOf(id), 1): index -1 removes the last entry
MapDeleteSplice(m, id) ==
  IF id \in Keys(m)
    THEN SelectSeq(m, LAMBDA e : e.id # id)
    ELSE IF Len(m) = 0 THEN m ELSE SubSeq(m, 1, Len(m) - 1)

\* a delete() applied to a copy of the Map: the registry keeps the key
MapDeleteOnCopy(m, id) == m

\* Map.prototype.delete: removes the key when present, no effect otherwise
MapDelete(m, id) == SelectSeq(m, LAMBDA e : e.id # id)

\* ------------------------------------------------------- scheduling helpers
\* requestAnimationFrame returns an id that no outstanding request carries
FreshRaf(outstanding) ==
  CHOOSE n \in 1 .. (MaxPending + 2) :
    /\ n \notin outstanding
    /\ \A k \in 1 .. (n - 1) : k \in outstanding

\* cancelAnimationFrame(id): removes that request, nothing else
cancelAnimationFrame(outstanding, id) == outstanding \ {id}

\* ------------------------------------------------------------ observations
NoStep == [kind |-> "none", log |-> << >>]

NoReg == "none"

Step(k, id, cb) == [k |-> k, id |-> id, cb |-> cb]

\* no u_ripples slot written
NoUpload == << >>

InitCore ==
  /\ mounted = TRUE
  /\ metadataLoaded = FALSE
  /\ videoPaused = TRUE
  /\ videoEnded = FALSE
  /\ eventQueue = << >>
  /\ glRef = Null
  /\ programRef = Null
  /\ videoTextureRef = Null
  /\ atlasTextureRef = Null
  /\ uniformLocationsRef = Null
  /\ resolveCalls = 0
  /\ live = {}
  /\ deleteCalls = [h \in Handles |-> 0]
  /\ inits = 0
  /\ animationRef = 0
  /\ rafs = {}
  /\ uniformSettersRef = << >>
  /\ isReady = FALSE
  /\ isPlaying = FALSE
  /\ lastStep = NoStep
  /\ lastReg = NoReg

\* useAsciiRipple before the first click
InitRipple ==
  /\ ripplesRef = << >>
  /\ rippleEnabledRef = TRUE
  /\ now = 0
  /\ clicks = 0
  /\ rippleUpload = NoUpload

\* the grid before initWebGL ran: useState({ cols: 80, rows: 24 })
InitDimensions == dimensions = [cols |-> 80, rows |-> 24]

\* a square source shown in one column
InitGridInputs ==
  /\ videoWidth = 1
  /\ videoHeight = 1
  /\ numColumns = 1

\* a black pixel, no audio, multiplier 1, ten glyphs: the shader gives glyph 0
InitFragBlack ==
  /\ baseBrightness = [n |-> 0, d |-> 1]
  /\ u_audioLevel = [n |-> 0, d |-> 1]
  /\ u_audioReactivity = [n |-> 0, d |-> 1]
  /\ u_audioSensitivity = [n |-> 0, d |-> 1]
  /\ u_brightness = [n |-> 1, d |-> 1]
  /\ u_numChars = MaxGlyphs
  /\ brightness = [n |-> 0, d |-> 1]
  /\ charIndex = 0

\* no canvas drawn yet
NoAtlas == [width |-> 0, height |-> 0, cells |-> << >>]

\* charset = "standard", the glyphs of " .:-=+*#%@", and a 64 pixel cell;
\* no atlas before initWebGL ran
InitNoAtlas ==
  /\ glyphs = << 32, 46, 58, 45, 61, 43, 42, 35, 37, 64 >>
  /\ fontSize = 64
  /\ atlas = NoAtlas

\* isPlaying = true, autoPlay = true: the effect's run on mount, before the
\* pipeline is ready, calls nothing
InitPlaybackDefaults ==
  /\ isPlayingProp = TRUE
  /\ autoPlay = TRUE
  /\ playCalls = 0
  /\ pauseCalls = 0
  /\ lastCall = "none"

\* the effect ids of the three feature hooks
SetterIds == {"mouse", "ripple", "audio"}

\* no setter ran
NoOrder == << >>

\* a freshly linked program: every uniform is zero
ZeroUniforms ==
  [ u_mouse |-> 0, u_trailLength |-> 0, u_trail |-> << >>,
    u_time |-> 0, u_rippleEnabled |-> 0, u_rippleSpeed |-> 0, u_ripples |-> << >>,
    u_audioLevel |-> [n |-> 0, d |-> 1],
    u_audioReactivity |-> [n |-> 0, d |-> 1],
    u_audioSensitivity |-> [n |-> 0, d |-> 1] ]

\* mouseRef = { x: -1, y: -1 }, trailRef = [], trailLength at its default (the
\* capacity of u_trail), volumeRef = 0
InitMouseAudio ==
  /\ mouseRef = -1
  /\ trailRef = << >>
  /\ trailLengthRef = MaxTrail
  /\ volumeRef = [n |-> 0, d |-> 1]

\* useAsciiAudio before the first play event: the effect is off (enabled =
\* false by default) and every ref holds null
InitAudioDefaults ==
  /\ audioEnabled = FALSE
  /\ audioContextRef = Null
  /\ analyzerRef = Null
  /\ sourceRef = Null
  /\ connectedVideoRef = Null
  /\ plays = 0

\* no transport call made yet
InitTransportDefaults ==
  /\ transportRequests = << >>
  /\ toggles = 0
  /\ playReqs = 0
  /\ pauseReqs = 0
  /\ origin = << >>

\* nothing was passed to onStats
NoStats == [fps |-> -1, frameTime |-> [n |-> 0, d |-> 1]]

\* frameCountRef = 0, frameTimesRef = [], lastFpsTimeRef = performance.now()
\* at construction, stats = { fps: 0, frameTime: 0 }
InitStatsDefaults ==
  /\ frameCountRef = 0
  /\ frameTimesRef = << >>
  /\ lastFpsTimeRef = 0
  /\ stats = [fps |-> 0, frameTime |-> [n |-> 0, d |-> 1]]
  /\ delivered = NoStats
  /\ lastTick = "none"

InitExtraDefaults ==
  /\ InitAudioDefaults
  /\ InitTransportDefaults
  /\ InitStatsDefaults

InitUniformDefaults ==
  /\ InitMouseAudio
  /\ uniformState = ZeroUniforms
  /\ setterOrder = NoOrder

Init ==
  /\ InitCore
  /\ InitRipple
  /\ InitGridInputs
  /\ InitDimensions
  /\ InitFragBlack
  /\ InitNoAtlas
  /\ InitPlaybackDefaults
  /\ InitUniformDefaults
  /\ InitExtraDefaults

\* ------------------------------------------------------------ the frame source
Enqueue(e) == eventQueue' = Append(eventQueue, e)

QueuedPlays == Cardinality({ i \in 1 .. Len(eventQueue) : eventQueue[i] = "play" })

\* the video reports its dimensions: fires loadedmetadata
SourceLoaded ==
  /\ mounted /\ ~metadataLoaded /\ Len(eventQueue) < MaxQueue
  /\ metadataLoaded' = TRUE
  /\ Enqueue("loadedmetadata")
  /\ lastStep' = NoStep
  /\ UNCHANGED << mounted, videoPaused, videoEnded, gpuVars, animationRef, rafs,
                  uniformSettersRef, isReady, isPlaying, lastReg >>
  /\ UNCHANGED hookVars

\* the video signals "playing": paused and ended clear at once, the event follows
SourcePlay ==
  /\ mounted /\ Len(eventQueue) < MaxQueue
  /\ Cardinality(rafs) + QueuedPlays < MaxPending
  /\ videoPaused' = FALSE
  /\ videoEnded' = FALSE
  /\ Enqueue("play")
  /\ lastStep' = NoStep
  /\ UNCHANGED << mounted, metadataLoaded, gpuVars, animationRef, rafs,
                  uniformSettersRef, isReady, isPlaying, lastReg >>
  /\ UNCHANGED hookVars

\* the video signals "paused"
SourcePause ==
  /\ mounted /\ Len(eventQueue) < MaxQueue
  /\ videoPaused' = TRUE
  /\ Enqueue("pause")
  /\ lastStep' = NoStep
  /\ UNCHANGED << mounted, metadataLoaded, videoEnded, gpuVars, animationRef, rafs,
                  uniformSettersRef, isReady, isPlaying, lastReg >>
  /\ UNCHANGED hookVars

\* the video signals "ended"
SourceEnded ==
  /\ mounted /\ Len(eventQueue) < MaxQueue
  /\ ~videoPaused /\ ~videoEnded
  /\ videoEnded' = TRUE
  /\ Enqueue("ended")
  /\ lastStep' = NoStep
  /\ UNCHANGED << mounted, metadataLoaded, videoPaused, gpuVars, animationRef, rafs,
                  uniformSettersRef, isReady, isPlaying, lastReg >>
  /\ UNCHANGED hookVars

\* ------------------------------------------------------------- initWebGL
\* a cache that looks every name up twice (once to test, once to store)
cacheUniformLocationsTwice(names) == 2 * Cardinality(names)

\* cacheUniformLocations: one gl.getUniformLocation(program, name) per field
\* of the table it returns; the number of calls it makes
cacheUniformLocations(names) == Cardinality(names)

\* createProgram: a program handle, or the compile/link error of the stage
\* that failed (compileShader itself returns the shader object unchecked)
createProgram(fail, handle) ==
  IF fail \in {"vertex", "fragment", "link"} THEN CompileError ELSE handle

\* an initWebGL that stores createProgram's result in programRef before
\* looking at it, and gives up when it is null
initWebGLEarlyProgram(fail) ==
  IF ~mounted
    THEN UNCHANGED << gpuVars, isReady >>
    ELSE IF fail = "context"
      THEN /\ glRef' = Null
           /\ UNCHANGED << programRef, videoTextureRef, atlasTextureRef,
                           uniformLocationsRef, resolveCalls, live, deleteCalls,
                           inits, isReady >>
      ELSE IF createProgram(fail, 3 * inits + 1) = CompileError
        THEN /\ glRef' = 1
             /\ programRef' = Null
             /\ UNCHANGED << videoTextureRef, atlasTextureRef,
                             uniformLocationsRef, resolveCalls, live, deleteCalls,
                             inits, isReady >>
        ELSE /\ glRef' = 1
             /\ programRef' = 3 * inits + 1
             /\ videoTextureRef' = 3 * inits + 2
             /\ atlasTextureRef' = 3 * inits + 3
             /\ uniformLocationsRef' = 3 * inits + 1
             /\ resolveCalls' = cacheUniformLocations(UniformNames)
             /\ live' = live \cup {3 * inits + 1, 3 * inits + 2, 3 * inits + 3}
             /\ inits' = inits + 1
             /\ isReady' = TRUE
             /\ UNCHANGED deleteCalls

\* initWebGL: context, shaders, program, quad, textures, uniform cache,
\* static uniforms, setIsReady(true).  A failing step throws out of the
\* function: what was assigned before it stays, nothing after it runs.
initWebGL(fail) ==
  IF ~mounted
    THEN UNCHANGED << gpuVars, isReady >>
    ELSE IF fail = "context"
      THEN /\ glRef' = Null
           /\ UNCHANGED << programRef, videoTextureRef, atlasTextureRef,
                           uniformLocationsRef, resolveCalls, live, deleteCalls,
                           inits, isReady >>
      ELSE IF createProgram(fail, 3 * inits + 1) = CompileError
        THEN /\ glRef' = 1
             /\ UNCHANGED << programRef, videoTextureRef, atlasTextureRef,
                             uniformLocationsRef, resolveCalls, live, deleteCalls,
                             inits, isReady >>
        ELSE /\ glRef' = 1
             /\ programRef' = 3 * inits + 1
             /\ videoTextureRef' = 3 * inits + 2
             /\ atlasTextureRef' = 3 * inits + 3
             /\ uniformLocationsRef' = 3 * inits + 1
             /\ resolveCalls' = cacheUniformLocations(UniformNames)
             /\ live' = live \cup {3 * inits + 1, 3 * inits + 2, 3 * inits + 3}
             /\ inits' = inits + 1
             /\ isReady' = TRUE
             /\ UNCHANGED deleteCalls

\* an initialization that would create GPU objects is bounded by MaxInits
CanInit(fail) == fail = "ok" => inits < MaxInits

\* ------------------------------------------------------- video event handlers
handleLoadedMetadata ==
  /\ mounted /\ eventQueue # << >> /\ Head(eventQueue) = "loadedmetadata"
  /\ eventQueue' = Tail(eventQueue)
  /\ \E fail \in InitFailures : CanInit(fail) /\ initWebGL(fail)
  /\ lastStep' = NoStep
  /\ UNCHANGED << mounted, videoVars, animationRef, rafs, uniformSettersRef,
                  isPlaying, lastReg >>
  /\ UNCHANGED hookVars

handlePlay ==
  /\ mounted /\ eventQueue # << >> /\ Head(eventQueue) = "play"
  /\ eventQueue' = Tail(eventQueue)
  /\ isPlaying' = TRUE
  /\ animationRef' = FreshRaf(rafs)
  /\ rafs' = rafs \cup {animationRef'}
  /\ lastStep' = NoStep
  /\ UNCHANGED << mounted, videoVars, gpuVars, uniformSettersRef, isReady,
                  lastReg >>
  /\ UNCHANGED hookVars

handlePause ==
  /\ mounted /\ eventQueue # << >> /\ Head(eventQueue) = "pause"
  /\ eventQueue' = Tail(eventQueue)
  /\ isPlaying' = FALSE
  /\ rafs' = cancelAnimationFrame(rafs, animationRef)
  /\ lastStep' = NoStep
  /\ UNCHANGED << mounted, videoVars, gpuVars, animationRef, uniformSettersRef,
                  isReady, lastReg >>
  /\ UNCHANGED hookVars

\* an ended handler that stops the loop and leaves the flag alone
handleEndedKeepsFlag ==
  /\ mounted /\ eventQueue # << >> /\ Head(eventQueue) = "ended"
  /\ eventQueue' = Tail(eventQueue)
  /\ rafs' = cancelAnimationFrame(rafs, animationRef)
  /\ lastStep' = NoStep
  /\ UNCHANGED << mounted, videoVars, gpuVars, animationRef, uniformSettersRef,
                  isReady, isPlaying, lastReg >>
  /\ UNCHANGED hookVars

handleEnded ==
  /\ mounted /\ eventQueue # << >> /\ Head(eventQueue) = "ended"
  /\ eventQueue' = Tail(eventQueue)
  /\ isPlaying' = FALSE
  /\ rafs' = cancelAnimationFrame(rafs, animationRef)
  /\ lastStep' = NoStep
  /\ UNCHANGED << mounted, videoVars, gpuVars, animationRef, uniformSettersRef,
                  isReady, lastReg >>
  /\ UNCHANGED hookVars

\* an event delivered after the listeners were removed reaches no handler
DropEvent ==
  /\ ~mounted /\ eventQueue # << >>
  /\ eventQueue' = Tail(eventQueue)
  /\ lastStep' = NoStep
  /\ UNCHANGED << mounted, videoVars, gpuVars, animationRef, rafs,
                  uniformSettersRef, isReady, isPlaying, lastReg >>
  /\ UNCHANGED hookVars

\* ------------------------------------------------------------ effect registry
\* what a set() displaced: "replaced" when another closure was registered
\* under the id
Displaced(m, id, cb) ==
  IF id \in Keys(m) /\ MapGet(m, id) # cb THEN "replaced" ELSE "none"

\* a register that also drops the cached uniform locations
registerDropsLocations(id, cb) ==
  /\ UNCHANGED << mounted, videoVars, eventQueue, glRef, programRef,
                  videoTextureRef, atlasTextureRef, resolveCalls, live,
                  deleteCalls, inits, animationRef, rafs, isReady, isPlaying >>
  /\ UNCHANGED hookVars
  /\ lastStep' = NoStep
  /\ uniformLocationsRef' = Null
  /\ uniformSettersRef' = MapSet(uniformSettersRef, id, cb)
  /\ lastReg' = Displaced(uniformSettersRef, id, cb)

registerUniformSetter(id, cb) ==
  /\ UNCHANGED << mounted, videoVars, eventQueue, gpuVars, animationRef, rafs,
                  isReady, isPlaying >>
  /\ UNCHANGED hookVars
  /\ lastStep' = NoStep
  /\ uniformSettersRef' = MapSet(uniformSettersRef, id, cb)
  /\ lastReg' = Displaced(uniformSettersRef, id, cb)

unregisterUniformSetter(id) ==
  /\ UNCHANGED << mounted, videoVars, eventQueue, gpuVars, animationRef, rafs,
                  isReady, isPlaying >>
  /\ UNCHANGED hookVars
  /\ lastStep' = NoStep
  /\ uniformSettersRef' = MapDelete(uniformSettersRef, id)
  /\ lastReg' = IF id \in Keys(uniformSettersRef) THEN "removed" ELSE "absent"

\* ------------------------------------------------------------------ render
\* a guard that forgets video.paused
RenderAbortsNoPause ==
  \/ glRef = Null
  \/ ~mounted
  \/ programRef = Null
  \/ uniformLocationsRef = Null
  \/ videoEnded

\* the guards at the top of render(): any missing handle, or a source that
\* is paused or ended, returns before any GPU work
RenderAborts ==
  \/ glRef = Null
  \/ ~mounted
  \/ programRef = Null
  \/ uniformLocationsRef = Null
  \/ videoPaused
  \/ videoEnded

\* a loop that starts at the second entry of the Map
InvokeLogSkipFirst(m, thrower) ==
  IF Len(m) = 0 THEN << >>
  ELSE [i \in 1 .. (Len(m) - 1) |-> Step("invoke", m[i + 1].id, m[i + 1].cb)]

\* the setters the for..of loop calls: the Map's values in insertion order,
\* up to and including the one that throws
InvokeLog(m, thrower) ==
  LET last == IF thrower \in Keys(m) THEN IndexOf(m, thrower) ELSE Len(m)
  IN  [i \in 1 .. last |-> Step("invoke", m[i].id, m[i].cb)]

\* what texImage2D(..., video) reads: the current frame when the video has
\* decoded one (readyState >= HAVE_CURRENT_DATA), nothing otherwise.  render
\* does not look at readyState.
Upload(hasFrame) == Step("upload", IF hasFrame THEN "frame" ELSE "empty", "-")

\* a render that draws before it runs the setters
DoneLogDrawFirst(m, hasFrame) ==
  << Upload(hasFrame), Step("draw", "-", "-") >>
    \o InvokeLog(m, NoThrow)
    \o << Step("stats", "-", "-"), Step("request", "-", "-") >>

\* the statements of a render() that reaches its end, in program order:
\* texImage2D, the setter loop, drawArrays, the FPS statistics,
\* requestAnimationFrame(render)
DoneLog(m, hasFrame) ==
  << Upload(hasFrame) >>
    \o InvokeLog(m, NoThrow)
    \o << Step("draw", "-", "-"), Step("stats", "-", "-"),
          Step("request", "-", "-") >>

\* a render that treats the registry as a one-shot queue: a completed tick
\* empties it
renderDrainsSetters(id, thrower, hasFrame) ==
  /\ id \in rafs
  /\ thrower \in Keys(uniformSettersRef) \cup {NoThrow}
  /\ IF RenderAborts
       THEN /\ lastStep' = [kind |-> "aborted", log |-> << >>]
            /\ rafs' = rafs \ {id}
            /\ UNCHANGED << animationRef, uniformSettersRef >>
       ELSE IF thrower # NoThrow
         THEN /\ lastStep' = [kind |-> "threw",
                              log |-> << Upload(hasFrame) >>
                                        \o InvokeLog(uniformSettersRef, thrower)]
              /\ rafs' = rafs \ {id}
              /\ UNCHANGED << animationRef, uniformSettersRef >>
         ELSE /\ lastStep' = [kind |-> "done",
                              log |-> DoneLog(uniformSettersRef, hasFrame)]
              /\ animationRef' = FreshRaf(rafs \ {id})
              /\ rafs' = (rafs \ {id}) \cup {animationRef'}
              /\ uniformSettersRef' = << >>
  /\ UNCHANGED << mounted, videoVars, eventQueue, gpuVars, isReady, isPlaying,
                  lastReg >>
  /\ UNCHANGED hookVars

\* one scheduled callback runs: render() from its first line to its return
\* or to the exception that leaves it
render(id, thrower, hasFrame) ==
  /\ id \in rafs
  /\ thrower \in Keys(uniformSettersRef) \cup {NoThrow}
  /\ IF RenderAborts
       THEN /\ lastStep' = [kind |-> "aborted", log |-> << >>]
            /\ rafs' = rafs \ {id}
            /\ UNCHANGED animationRef
       ELSE IF thrower # NoThrow
         THEN /\ lastStep' = [kind |-> "threw",
                              log |-> << Upload(hasFrame) >>
                                        \o InvokeLog(uniformSettersRef, thrower)]
              /\ rafs' = rafs \ {id}
              /\ UNCHANGED animationRef
         ELSE /\ lastStep' = [kind |-> "done",
                              log |-> DoneLog(uniformSettersRef, hasFrame)]
              /\ animationRef' = FreshRaf(rafs \ {id})
              /\ rafs' = (rafs \ {id}) \cup {animationRef'}
  /\ UNCHANGED << mounted, videoVars, eventQueue, gpuVars, uniformSettersRef,
                  isReady, isPlaying, lastReg >>
  /\ UNCHANGED hookVars

\* ------------------------------------------------------- re-initialization
\* a change of numColumns/charset/fontSize gives initWebGL and render a new
\* identity: the event-handler effect is cleaned up (listeners removed, pending
\* frame cancelled) and run again (listeners attached, initWebGL when the
\* video's metadata is already there)
ParamChange ==
  /\ mounted
  /\ rafs' = cancelAnimationFrame(rafs, animationRef)
  /\ \E fail \in InitFailures :
       /\ CanInit(fail)
       /\ IF metadataLoaded
            THEN initWebGL(fail)
            ELSE fail = "ok" /\ UNCHANGED << gpuVars, isReady >>
  /\ lastStep' = NoStep
  /\ UNCHANGED << mounted, videoVars, eventQueue, animationRef, uniformSettersRef,
                  isPlaying, lastReg >>
  /\ UNCHANGED hookVars

\* the ResizeObserver on the container calls initWebGL directly
Resize ==
  /\ mounted /\ metadataLoaded
  /\ \E fail \in InitFailures : CanInit(fail) /\ initWebGL(fail)
  /\ lastStep' = NoStep
  /\ UNCHANGED << mounted, videoVars, eventQueue, animationRef, rafs,
                  uniformSettersRef, isPlaying, lastReg >>
  /\ UNCHANGED hookVars

\* ------------------------------------------------------------------ teardown
Bump(f, hs) == [h \in DOMAIN f |-> IF h \in hs THEN f[h] + 1 ELSE f[h]]

HeldHandles == {programRef, videoTextureRef, atlasTextureRef} \ {Null}

\* a cleanup that leaves glRef.current in place
TeardownKeepGl ==
  /\ rafs' = cancelAnimationFrame(rafs, animationRef)
  /\ uniformSettersRef' = << >>
  /\ mounted' = FALSE
  /\ IF glRef = Null
       THEN UNCHANGED << live, deleteCalls >>
       ELSE /\ live' = live \ HeldHandles
            /\ deleteCalls' = Bump(deleteCalls, HeldHandles)
  /\ lastStep' = [kind |-> IF mounted THEN "teardown" ELSE "teardownAgain",
                  log |-> << >>]
  /\ UNCHANGED << videoVars, eventQueue, glRef, programRef, videoTextureRef,
                  atlasTextureRef, uniformLocationsRef, resolveCalls, inits, animationRef,
                  isReady, isPlaying, lastReg >>
  /\ UNCHANGED hookVars

\* unmount: the cleanups run (cancel the pending frame, unregister the feature
\* setters, remove the listeners, delete the textures and the program through
\* the context when there is one) and the context ref is cleared
Teardown ==
  /\ rafs' = cancelAnimationFrame(rafs, animationRef)
  /\ uniformSettersRef' = << >>
  /\ mounted' = FALSE
  /\ IF glRef = Null
       THEN UNCHANGED << live, deleteCalls >>
       ELSE /\ live' = live \ HeldHandles
            /\ deleteCalls' = Bump(deleteCalls, HeldHandles)
  /\ glRef' = Null
  /\ lastStep' = [kind |-> IF mounted THEN "teardown" ELSE "teardownAgain",
                  log |-> << >>]
  /\ UNCHANGED << videoVars, eventQueue, programRef, videoTextureRef,
                  atlasTextureRef, uniformLocationsRef, resolveCalls, inits, animationRef,
                  isReady, isPlaying, lastReg >>
  /\ UNCHANGED hookVars

\* ------------------------------------------------------------ specification
Next ==
  \/ SourceLoaded
  \/ SourcePlay
  \/ SourcePause
  \/ SourceEnded
  \/ handleLoadedMetadata
  \/ handlePlay
  \/ handlePause
  \/ handleEnded
  \/ DropEvent
  \/ \E id \in Ids, cb \in Callbacks : registerUniformSetter(id, cb)
  \/ \E id \in Ids : unregisterUniformSetter(id)
  \/ \E id \in rafs, thrower \in Ids \cup {NoThrow}, hasFrame \in BOOLEAN :
       render(id, thrower, hasFrame)
  \/ ParamChange
  \/ Resize
  \/ Teardown

Spec == Init /\ [][Next]_vars

\* ------------------------------------------------------------ useAsciiRipple
\* maxLifetime = maxDist / speed + 1.0, in time units
maxLifetime == 2

Ripple(n, t) == [n |-> n, startTime |-> t]

\* Array.prototype.unshift: the new element becomes the first
unshift(list, r) == << r >> \o list

\* Array.prototype.shift: removes the first element
shift(list) == Tail(list)

\* Array.prototype.pop: removes the last element
pop(list) == SubSeq(list, 1, Len(list) - 1)

\* onClick: nothing when the effect is disabled; otherwise the new ripple goes
\* to the front and, when the list grew past MAX_RIPPLES, the last one goes
onClick ==
  /\ clicks < MaxClicks
  /\ clicks' = clicks + 1
  /\ IF ~rippleEnabledRef
       THEN UNCHANGED ripplesRef
       ELSE LET grown == unshift(ripplesRef, Ripple(clicks + 1, now))
            IN  ripplesRef' = IF Len(grown) > MAX_RIPPLES THEN pop(grown) ELSE grown
  /\ rippleUpload' = NoUpload
  /\ UNCHANGED << rippleEnabledRef, now >>
  /\ UNCHANGED notRipple

\* an upload loop that stops at the last active ripple: the slots after it
\* are not written
rippleSlotsActiveOnly(list) ==
  [ i \in 1 .. Len(list) |->
      [pos |-> list[i].n, startTime |-> list[i].startTime, enabled |-> 1] ]

\* the upload loop over i < MAX_RIPPLES: slot i gets
\* (ripple.x, ripple.y, ripple.startTime, 1.0) when ripplesRef.current[i]
\* exists and (0, 0, 0, 0.0) otherwise
rippleSlots(list) ==
  [ i \in 1 .. MAX_RIPPLES |->
      IF i <= Len(list)
        THEN [pos |-> list[i].n, startTime |-> list[i].startTime, enabled |-> 1]
        ELSE [pos |-> 0, startTime |-> 0, enabled |-> 0] ]

\* the ripple setter, once per frame: drops the ripples older than
\* maxLifetime, then uploads the slots from the filtered list
rippleSetter ==
  /\ ripplesRef' = SelectSeq(ripplesRef, LAMBDA r : now - r.startTime < maxLifetime)
  /\ rippleUpload' = rippleSlots(ripplesRef')
  /\ UNCHANGED << rippleEnabledRef, now, clicks >>
  /\ UNCHANGED notRipple

\* the enableRipple prop changes
SetRippleEnabled ==
  /\ rippleEnabledRef' = ~rippleEnabledRef
  /\ rippleUpload' = NoUpload
  /\ UNCHANGED << ripplesRef, now, clicks >>
  /\ UNCHANGED notRipple

\* the clock advances
AdvanceTime ==
  /\ now < MaxTime
  /\ now' = now + 1
  /\ rippleUpload' = NoUpload
  /\ UNCHANGED << ripplesRef, rippleEnabledRef, clicks >>
  /\ UNCHANGED notRipple

NextRipple ==
  \/ onClick
  \/ rippleSetter
  \/ SetRippleEnabled
  \/ AdvanceTime

SpecRipple == Init /\ [][NextRipple]_vars

\* ------------------------------------------------- calculateGridDimensions
\* Math.round of the quotient p / q (q > 0): the nearest integer, halves up
MathRound(p, q) == (2 * p + q) \div (2 * q)

\* calculateGridDimensions: aspectRatio = videoWidth / videoHeight,
\* rows = Math.round(cols / aspectRatio / 2)
calculateGridDimensions(w, h, cols) ==
  [cols |-> cols, rows |-> MathRound(cols * h, 2 * w)]

\* initWebGL's first statements: compute the grid, setDimensions(grid)
setDimensions ==
  /\ dimensions' = calculateGridDimensions(videoWidth, videoHeight, numColumns)
  /\ UNCHANGED << videoWidth, videoHeight, numColumns >>
  /\ UNCHANGED notGrid

\* the numColumns prop changes
SetNumColumns ==
  /\ \E c \in 1 .. MaxColumns : c # numColumns /\ numColumns' = c
  /\ UNCHANGED << videoWidth, videoHeight, dimensions >>
  /\ UNCHANGED notGrid

InitGrid ==
  /\ InitCore
  /\ InitRipple
  /\ InitFragBlack
  /\ InitNoAtlas
  /\ InitPlaybackDefaults
  /\ InitUniformDefaults
  /\ InitExtraDefaults
  /\ videoWidth \in 1 .. MaxVideoSide
  /\ videoHeight \in 1 .. MaxVideoSide
  /\ numColumns \in 1 .. MaxColumns
  /\ InitDimensions

NextGrid ==
  \/ setDimensions
  \/ SetNumColumns

SpecGrid == InitGrid /\ [][NextGrid]_vars

\* ------------------------------------------------------------ fragment shader
\* GLSL floats as exact fractions n/d in lowest terms (d > 0)
RECURSIVE GCD(_, _)
GCD(a, b) == IF b = 0 THEN a ELSE GCD(b, a % b)

Frac(n, d) ==
  LET g == IF n = 0 THEN d ELSE GCD(IF n < 0 THEN -n ELSE n, d)
  IN  [n |-> n \div g, d |-> d \div g]

FracMul(x, y) == Frac(x.n * y.n, x.d * y.d)

FracAdd(x, y) == Frac(x.n * y.d + y.n * x.d, x.d * y.d)

FracSub(x, y) == Frac(x.n * y.d - y.n * x.d, x.d * y.d)

FracLeq(x, y) == x.n * y.d <= y.n * x.d

\* GLSL floor() of a fraction
floor(x) == IF x.n >= 0 THEN x.n \div x.d ELSE -((-x.n + x.d - 1) \div x.d)

\* GLSL mix(x, y, a) = x * (1 - a) + y * a
mix(x, y, a) == FracAdd(FracMul(x, FracSub(Frac(1, 1), a)), FracMul(y, a))

\* a clamp that lets its argument through
clampNone(x, lo, hi) == x

\* GLSL clamp(x, lo, hi)
clamp(x, lo, hi) == IF FracLeq(x, lo) THEN lo ELSE IF FracLeq(hi, x) THEN hi ELSE x

\* audioMultiplier = mix(minBrightness, maxBrightness, u_audioLevel) with
\* minBrightness = mix(0.3, 0.0, u_audioSensitivity) and
\* maxBrightness = mix(1.0, 5.0, u_audioSensitivity)
audioMultiplier(level, sensitivity) ==
  LET minBrightness == mix(Frac(3, 10), Frac(0, 1), sensitivity)
      maxBrightness == mix(Frac(1, 1), Frac(5, 1), sensitivity)
  IN  mix(minBrightness, maxBrightness, level)

\* brightness = mix(baseBrightness, baseBrightness * audioMultiplier, u_audioReactivity)
audioBrightness(base, level, reactivity, sensitivity) ==
  mix(base, FracMul(base, audioMultiplier(level, sensitivity)), reactivity)

\* the user's brightness multiplier applied to the modulated brightness
calculateWithMultiplier(b, multiplier) == FracMul(b, multiplier)

\* adjustedBrightness: the multiplied brightness, clamped to [0, 1]
adjustedBrightness(b, multiplier) ==
  clamp(calculateWithMultiplier(b, multiplier), Frac(0, 1), Frac(1, 1))

\* a mapping that counts glyphs from the bright end
charIndexFromBright(adjusted, numChars) ==
  (numChars - 1) - floor(FracMul(adjusted, FracSub(Frac(numChars, 1), Frac(1, 1000))))

\* charIndex = floor(adjustedBrightness * (u_numChars - 0.001))
charIndexOf(adjusted, numChars) ==
  floor(FracMul(adjusted, FracSub(Frac(numChars, 1), Frac(1, 1000))))

\* the values the inputs are drawn from
UnitValues == { Frac(0, 1), Frac(1, 2), Frac(1, 1) }
Luminances == { Frac(0, 1), Frac(1, 4), Frac(1, 2), Frac(3, 4), Frac(19, 20), Frac(1, 1) }
Multipliers == { Frac(0, 1), Frac(1, 2), Frac(1, 1), Frac(3, 2), Frac(2, 1) }

\* what the shader computes for the pixel and the uniforms in the state
Shaded(base, level, reactivity, sensitivity, multiplier, numChars) ==
  LET b == audioBrightness(base, level, reactivity, sensitivity)
  IN  /\ brightness' = b
      /\ charIndex' = charIndexOf(adjustedBrightness(b, multiplier), numChars)

\* the shader runs for another pixel of the frame: same uniforms
fragmentMain ==
  /\ \E base \in Luminances :
       /\ baseBrightness' = base
       /\ Shaded(base, u_audioLevel, u_audioReactivity, u_audioSensitivity,
                 u_brightness, u_numChars)
  /\ UNCHANGED << u_audioLevel, u_audioReactivity, u_audioSensitivity,
                  u_brightness, u_numChars >>
  /\ UNCHANGED notFrag

\* the audio setter writes a new level before the next frame, which shades
\* the same pixel again
setAudioLevel ==
  /\ \E level \in UnitValues :
       /\ level # u_audioLevel
       /\ u_audioLevel' = level
       /\ Shaded(baseBrightness, level, u_audioReactivity, u_audioSensitivity,
                 u_brightness, u_numChars)
  /\ UNCHANGED << baseBrightness, u_audioReactivity, u_audioSensitivity,
                  u_brightness, u_numChars >>
  /\ UNCHANGED notFrag

\* a black first pixel (brightness 0, glyph 0 whatever the uniforms), for
\* every choice of uniforms
InitFrag ==
  /\ InitCore
  /\ InitRipple
  /\ InitGridInputs
  /\ InitDimensions
  /\ InitNoAtlas
  /\ InitPlaybackDefaults
  /\ InitUniformDefaults
  /\ InitExtraDefaults
  /\ baseBrightness = Frac(0, 1)
  /\ u_audioLevel \in UnitValues
  /\ u_audioReactivity \in UnitValues
  /\ u_audioSensitivity \in UnitValues
  /\ u_brightness \in Multipliers
  /\ u_numChars \in 1 .. MaxGlyphs
  /\ brightness = Frac(0, 1)
  /\ charIndex = 0

NextFrag ==
  \/ fragmentMain
  \/ setAudioLevel

SpecFrag == InitFrag /\ [][NextFrag]_vars

\* ------------------------------------------------------------ createAsciiAtlas
\* A glyph is one Unicode code point.  A charset's chars is a JavaScript
\* string, a sequence of UTF-16 code units: a code point above U+FFFF takes
\* two of them, a surrogate pair.
toUTF16(cp) ==
  IF cp < 65536
  THEN << cp >>
  ELSE << 55296 + ((cp - 65536) \div 1024), 56320 + ((cp - 65536) % 1024) >>

RECURSIVE stringOf(_)
stringOf(gs) ==
  IF gs = << >> THEN << >> ELSE toUTF16(Head(gs)) \o stringOf(Tail(gs))

isHighSurrogate(u) == 55296 <= u /\ u <= 56319
isLowSurrogate(u)  == 56320 <= u /\ u <= 57343

\* getCharArray: the string split into its glyphs, a surrogate pair giving one
\* element
RECURSIVE getCharArray(_)
getCharArray(str) ==
  IF str = << >> THEN << >>
  ELSE IF Len(str) >= 2 /\ isHighSurrogate(str[1]) /\ isLowSurrogate(str[2])
       THEN << 65536 + (str[1] - 55296) * 1024 + (str[2] - 56320) >>
              \o getCharArray(SubSeq(str, 3, Len(str)))
       ELSE << str[1] >> \o getCharArray(Tail(str))

\* the atlas the loop would draw over the string itself: chars.length and
\* chars[i] of a string count and index UTF-16 code units
createAsciiAtlasOfString(chars, charSize) ==
  LET str == stringOf(chars) IN
  [ width  |-> charSize * Len(str),
    height |-> charSize,
    cells  |-> [ i \in 1 .. Len(str) |->
                 [ left |-> (i - 1) * charSize, glyph |-> str[i] ] ] ]

\* createAsciiAtlas(gl, chars, charSize): a canvas charSize * chars.length wide
\* and charSize high; chars[i] is drawn centred in the cell that starts at
\* i * charSize (i counted from 0)
createAsciiAtlas(chars, charSize) ==
  [ width  |-> charSize * Len(chars),
    height |-> charSize,
    cells  |-> [ i \in 1 .. Len(chars) |->
                 [ left |-> (i - 1) * charSize, glyph |-> chars[i] ] ] ]

\* ' ', '@', U+1F311 and U+1F315 (two moon phases of the "emoji" charset)
CodePoints == {32, 64, 127761, 127765}

Charsets == UNION { [1 .. n -> CodePoints] : n \in 1 .. MaxAtlasCells }

\* initWebGL builds the atlas for the selected charset and font size
buildAtlas ==
  /\ atlas' = createAsciiAtlas(getCharArray(stringOf(glyphs)), fontSize)
  /\ UNCHANGED << glyphs, fontSize >>
  /\ UNCHANGED notAtlas

\* the charset option changes: the old atlas goes with the old program
SetCharset ==
  /\ \E g \in Charsets : g # glyphs /\ glyphs' = g
  /\ atlas' = NoAtlas
  /\ UNCHANGED fontSize
  /\ UNCHANGED notAtlas

SetFontSize ==
  /\ \E n \in 1 .. MaxFontSize : n # fontSize /\ fontSize' = n
  /\ atlas' = NoAtlas
  /\ UNCHANGED glyphs
  /\ UNCHANGED notAtlas

InitAtlas ==
  /\ InitCore
  /\ InitRipple
  /\ InitGridInputs
  /\ InitDimensions
  /\ InitFragBlack
  /\ InitPlaybackDefaults
  /\ InitUniformDefaults
  /\ InitExtraDefaults
  /\ glyphs \in Charsets
  /\ fontSize \in 1 .. MaxFontSize
  /\ atlas = NoAtlas

NextAtlas ==
  \/ buildAtlas
  \/ SetCharset
  \/ SetFontSize

SpecAtlas == InitAtlas /\ [][NextAtlas]_vars

\* ------------------------------------------- Video2Ascii: the playback effect
\* the body of the effect: video.play() when isPlaying, autoPlay and isReady
\* all hold, nothing when isPlaying holds without them, video.pause() when
\* isPlaying is false
playbackEffect(playing, auto, ready) ==
  IF playing
    THEN IF auto /\ ready THEN "play" ELSE "none"
    ELSE "pause"

\* the effect runs after a render in which one of its dependencies
\* [isPlaying, autoPlay, isReady] changed
RunPlaybackEffect ==
  /\ lastCall' = playbackEffect(isPlayingProp', autoPlay', isReady')
  /\ playCalls' = playCalls + (IF lastCall' = "play" THEN 1 ELSE 0)
  /\ pauseCalls' = pauseCalls + (IF lastCall' = "pause" THEN 1 ELSE 0)

\* the parent changes the isPlaying prop
SetIsPlaying ==
  /\ playCalls < MaxCalls /\ pauseCalls < MaxCalls
  /\ isPlayingProp' = ~isPlayingProp
  /\ UNCHANGED << autoPlay, isReady >>
  /\ RunPlaybackEffect
  /\ UNCHANGED notPlayback

\* the parent changes the autoPlay prop
SetAutoPlay ==
  /\ playCalls < MaxCalls /\ pauseCalls < MaxCalls
  /\ autoPlay' = ~autoPlay
  /\ UNCHANGED << isPlayingProp, isReady >>
  /\ RunPlaybackEffect
  /\ UNCHANGED notPlayback

\* initWebGL reached setIsReady(true)
PipelineReady ==
  /\ playCalls < MaxCalls /\ pauseCalls < MaxCalls
  /\ ~isReady
  /\ isReady' = TRUE
  /\ UNCHANGED << isPlayingProp, autoPlay >>
  /\ RunPlaybackEffect
  /\ UNCHANGED notPlayback

\* the props the component is mounted with, and the effect's run on mount
InitPlayback ==
  /\ InitCore
  /\ InitRipple
  /\ InitGridInputs
  /\ InitDimensions
  /\ InitFragBlack
  /\ InitNoAtlas
  /\ InitUniformDefaults
  /\ InitExtraDefaults
  /\ isPlayingProp \in BOOLEAN
  /\ autoPlay \in BOOLEAN
  /\ lastCall = playbackEffect(isPlayingProp, autoPlay, FALSE)
  /\ playCalls = 0
  /\ pauseCalls = IF lastCall = "pause" THEN 1 ELSE 0

NextPlayback ==
  \/ SetIsPlaying
  \/ SetAutoPlay
  \/ PipelineReady

SpecPlayback == InitPlayback /\ [][NextPlayback]_vars

\* ----------------------------------------- the feature setters' uniform writes
\* what each setter uploads, as a record from the uniforms it writes to the
\* values it writes

\* the mouse setter: u_mouse, u_trailLength and every u_trail slot (the
\* position at that index, or -1 when the trail is shorter)
mouseUniforms(mouse, trail) ==
  [ u_mouse |-> mouse,
    u_trailLength |-> Len(trail),
    u_trail |-> [ i \in 1 .. MaxTrail |->
                  IF i <= Len(trail) THEN trail[i] ELSE -1 ] ]

\* the ripple setter: u_time, u_rippleEnabled = 1.0, u_rippleSpeed (the
\* speed option, 40) and every u_ripples slot
rippleUniforms(list, t) ==
  [ u_time |-> t,
    u_rippleEnabled |-> 1,
    u_rippleSpeed |-> 40,
    u_ripples |-> rippleSlots(list) ]

\* an audio setter that also stamps u_time
audioUniformsStampTime(volume) ==
  [ u_audioLevel |-> volume,
    u_audioReactivity |-> Frac(50, 100),
    u_audioSensitivity |-> Frac(50, 100),
    u_time |-> -1 ]

\* the audio setter: u_audioLevel, u_audioReactivity and u_audioSensitivity
\* (the reactivity and sensitivity options, 50, over 100)
audioUniforms(volume) ==
  [ u_audioLevel |-> volume,
    u_audioReactivity |-> Frac(50, 100),
    u_audioSensitivity |-> Frac(50, 100) ]

\* the host state the setters read when they run
Host(mouse, trail, list, t, volume) ==
  [mouse |-> mouse, trail |-> trail, ripples |-> list, time |-> t,
   volume |-> volume]

SetterWrites(id, host) ==
  CASE id = "mouse"  -> mouseUniforms(host.mouse, host.trail)
    [] id = "ripple" -> rippleUniforms(host.ripples, host.time)
    [] id = "audio"  -> audioUniforms(host.volume)

\* gl.uniform*: the named uniforms take the new values, the others keep theirs
ApplyWrites(u, w) ==
  [ k \in DOMAIN u |-> IF k \in DOMAIN w THEN w[k] ELSE u[k] ]

\* the for..of loop over the setters, in the order given
RECURSIVE ApplyAll(_, _, _)
ApplyAll(order, u, host) ==
  IF order = << >> THEN u
  ELSE ApplyAll(Tail(order), ApplyWrites(u, SetterWrites(Head(order), host)), host)

\* the volume updateVolume() computes: silence or full level
Levels == { Frac(0, 1), Frac(1, 1) }

Ran(order) == { order[i] : i \in 1 .. Len(order) }

\* the insertion orders the registry of the three feature setters can have
Orders ==
  { o \in [1 .. Cardinality(SetterIds) -> SetterIds] :
      \A i, j \in 1 .. Len(o) : i # j => o[i] # o[j] }

\* an onMouseMove that records the previous position whether or not the cursor
\* was inside
onMouseMoveUnguarded ==
  /\ \E newPos \in {0, 1} :
       /\ mouseRef' = newPos
       /\ trailRef' =
            LET grown == unshift(trailRef, mouseRef)
            IN  IF Len(grown) > trailLengthRef THEN pop(grown) ELSE grown
  /\ setterOrder' = NoOrder
  /\ UNCHANGED << trailLengthRef, volumeRef, uniformState >>
  /\ UNCHANGED rippleVars
  /\ UNCHANGED notUniforms

\* onMouseMove: the previous position goes to the front of the trail when the
\* cursor was inside, the trail is cut to trailLength, the position is stored
onMouseMove ==
  /\ \E newPos \in {0, 1} :
       /\ mouseRef' = newPos
       /\ trailRef' =
            IF mouseRef >= 0
              THEN LET grown == unshift(trailRef, mouseRef)
                   IN  IF Len(grown) > trailLengthRef THEN pop(grown) ELSE grown
              ELSE trailRef
  /\ setterOrder' = NoOrder
  /\ UNCHANGED << trailLengthRef, volumeRef, uniformState >>
  /\ UNCHANGED rippleVars
  /\ UNCHANGED notUniforms

\* onMouseLeave
onMouseLeave ==
  /\ mouseRef' = -1
  /\ trailRef' = << >>
  /\ setterOrder' = NoOrder
  /\ UNCHANGED << trailLengthRef, volumeRef, uniformState >>
  /\ UNCHANGED rippleVars
  /\ UNCHANGED notUniforms

\* the setter loop of one tick over the three registered feature setters: the
\* ripple setter filters its list, the audio setter reads a new volume, and
\* each setter uploads its uniforms
TickSetters ==
  \E order \in Orders, level \in Levels :
        /\ ripplesRef' = SelectSeq(ripplesRef,
                                   LAMBDA r : now - r.startTime < maxLifetime)
        /\ rippleUpload' = rippleSlots(ripplesRef')
        /\ volumeRef' = level
        /\ uniformState' =
             ApplyAll(order, uniformState,
                      Host(mouseRef, trailRef, ripplesRef', now, volumeRef'))
        /\ setterOrder' = order
        /\ UNCHANGED << mouseRef, trailRef, trailLengthRef, rippleEnabledRef, now,
                        clicks >>
        /\ UNCHANGED notUniforms

\* ripple lists of zero to two clicks, looked at when both ripples are alive
\* or when the first one has expired
InitUniforms ==
  /\ InitCore
  /\ InitGridInputs
  /\ InitDimensions
  /\ InitFragBlack
  /\ InitNoAtlas
  /\ InitPlaybackDefaults
  /\ InitUniformDefaults
  /\ InitExtraDefaults
  /\ ripplesRef \in { << >>, << Ripple(1, 0) >>, << Ripple(2, 1), Ripple(1, 0) >> }
  /\ rippleEnabledRef = TRUE
  /\ now \in {1, maxLifetime}
  /\ clicks = Len(ripplesRef)
  /\ rippleUpload = NoUpload

NextUniforms ==
  \/ onMouseMove
  \/ onMouseLeave
  \/ TickSetters

SpecUniforms == InitUniforms /\ [][NextUniforms]_vars

\* ------------------------------------------------------- useAsciiMouseEffect
\* the "keep refs fresh" effect after the trailLength option changed: only
\* trailLengthRef is assigned, the trail is left as it is
SetTrailLength ==
  /\ \E n \in 1 .. MaxTrail :
       /\ n # trailLengthRef
       /\ trailLengthRef' = n
  /\ setterOrder' = NoOrder
  /\ UNCHANGED << mouseRef, trailRef, volumeRef, uniformState >>
  /\ UNCHANGED rippleVars
  /\ UNCHANGED notUniforms

\* a tick whose registry holds the mouse setter only
MouseTick ==
  /\ uniformState' = ApplyWrites(uniformState, mouseUniforms(mouseRef, trailRef))
  /\ setterOrder' = << "mouse" >>
  /\ UNCHANGED << mouseRef, trailRef, trailLengthRef, volumeRef >>
  /\ UNCHANGED rippleVars
  /\ UNCHANGED notUniforms

NextMouse ==
  \/ onMouseMove
  \/ onMouseLeave
  \/ SetTrailLength
  \/ MouseTick

SpecMouse == Init /\ [][NextMouse]_vars

\* -------------------------------------------------------------- useAsciiAudio
\* the video element in ascii.videoRef.current
Video == 1

\* connectAudio, the play listener: it returns when connectedVideoRef.current
\* is the video; otherwise it creates the context if there is none, a new
\* analyser and a new media-element source for the video. connectedVideoRef is
\* read only: connectAudio does not assign it
connectAudio ==
  IF connectedVideoRef = Video
    THEN UNCHANGED << audioContextRef, analyzerRef, sourceRef, connectedVideoRef >>
    ELSE /\ audioContextRef' = 1
         /\ analyzerRef' = analyzerRef + 1
         /\ sourceRef' = sourceRef + 1
         /\ UNCHANGED connectedVideoRef

\* the video starts playing and fires "play"; the listener runs when the
\* effect is enabled
AudioSourcePlay ==
  /\ mounted /\ videoPaused /\ plays < MaxPlays
  /\ videoPaused' = FALSE
  /\ plays' = plays + 1
  /\ IF audioEnabled
       THEN connectAudio
       ELSE UNCHANGED << audioContextRef, analyzerRef, sourceRef, connectedVideoRef >>
  /\ UNCHANGED audioEnabled
  /\ UNCHANGED notAudio

\* the video pauses: no listener of useAsciiAudio
AudioSourcePause ==
  /\ mounted /\ ~videoPaused
  /\ videoPaused' = TRUE
  /\ UNCHANGED audioVars
  /\ UNCHANGED notAudio

\* the enabled option changes: the effect's cleanup removes the play listener,
\* or the effect adds it
SetAudioEnabled ==
  /\ audioEnabled' = ~audioEnabled
  /\ UNCHANGED << audioContextRef, analyzerRef, sourceRef, connectedVideoRef,
                  plays, videoPaused >>
  /\ UNCHANGED notAudio

NextAudio ==
  \/ AudioSourcePlay
  \/ AudioSourcePause
  \/ SetAudioEnabled

SpecAudio == Init /\ [][NextAudio]_vars

\* ------------------------------------------- enabling and disabling effects
\* the feature uniforms after initWebGL initialized them to disabled: no
\* cursor, an empty trail, ripples off, no audio contribution
DisabledUniforms ==
  [ u_mouse |-> -1, u_trailLength |-> 0, u_trail |-> [ i \in 1 .. MaxTrail |-> -1 ],
    u_time |-> 0, u_rippleEnabled |-> 0, u_rippleSpeed |-> 0,
    u_ripples |-> rippleSlots(<< >>),
    u_audioLevel |-> Frac(0, 1),
    u_audioReactivity |-> Frac(0, 1),
    u_audioSensitivity |-> Frac(0, 1) ]

\* the closure a feature hook registers
SetterOf(id) == "A"

\* the ids in the registry, in insertion order
RegistryOrder(m) == [ i \in 1 .. Len(m) |-> m[i].id ]

\* what a registration effect and its cleanup leave alone: everything but the
\* registry
RegistryStep ==
  /\ lastStep' = NoStep
  /\ setterOrder' = NoOrder
  /\ rippleUpload' = NoUpload
  /\ UNCHANGED << mounted, videoVars, eventQueue, gpuVars, animationRef, rafs,
                  isReady, isPlaying >>
  /\ UNCHANGED << mouseRef, trailRef, trailLengthRef, volumeRef, uniformState >>
  /\ UNCHANGED << ripplesRef, rippleEnabledRef, now, clicks >>
  /\ UNCHANGED << gridVars, fragVars, atlasVars, playbackVars, extraVars >>

\* an effect's enabled option turns true: its registration effect runs
EnableEffect(id) ==
  /\ id \notin Keys(uniformSettersRef)
  /\ uniformSettersRef' = MapSet(uniformSettersRef, id, SetterOf(id))
  /\ lastReg' = Displaced(uniformSettersRef, id, SetterOf(id))
  /\ RegistryStep

\* an effect's enabled option turns false: the registration effect's cleanup
\* runs, and nothing else
DisableEffect(id) ==
  /\ id \in Keys(uniformSettersRef)
  /\ uniformSettersRef' = MapDelete(uniformSettersRef, id)
  /\ lastReg' = "removed"
  /\ RegistryStep

\* onMouseMove returns at once unless the mouse effect is enabled
EnabledMouseMove ==
  /\ "mouse" \in Keys(uniformSettersRef)
  /\ onMouseMove

\* the setter loop and the draw call of one tick: the registered setters run
\* in insertion order; a setter that is not registered writes nothing
EffectTick ==
  \E level \in Levels :
    LET order == RegistryOrder(uniformSettersRef)
    IN  /\ ripplesRef' =
             IF "ripple" \in Ran(order)
               THEN SelectSeq(ripplesRef, LAMBDA r : now - r.startTime < maxLifetime)
               ELSE ripplesRef
        /\ rippleUpload' =
             IF "ripple" \in Ran(order) THEN rippleSlots(ripplesRef') ELSE NoUpload
        /\ volumeRef' = IF "audio" \in Ran(order) THEN level ELSE volumeRef
        /\ uniformState' =
             ApplyAll(order, uniformState,
                      Host(mouseRef, trailRef, ripplesRef', now, volumeRef'))
        /\ setterOrder' = order
        /\ UNCHANGED << mouseRef, trailRef, trailLengthRef, rippleEnabledRef, now,
                        clicks >>
        /\ UNCHANGED notUniforms

\* an initialized pipeline with no effect enabled; one ripple is or is not in
\* the list
InitEffects ==
  /\ InitCore
  /\ InitGridInputs
  /\ InitDimensions
  /\ InitFragBlack
  /\ InitNoAtlas
  /\ InitPlaybackDefaults
  /\ InitMouseAudio
  /\ InitExtraDefaults
  /\ uniformState = DisabledUniforms
  /\ setterOrder = NoOrder
  /\ ripplesRef \in { << >>, << Ripple(1, 0) >> }
  /\ rippleEnabledRef = TRUE
  /\ now = 1
  /\ clicks = Len(ripplesRef)
  /\ rippleUpload = NoUpload

NextEffects ==
  \/ \E id \in SetterIds : EnableEffect(id)
  \/ \E id \in SetterIds : DisableEffect(id)
  \/ EnabledMouseMove
  \/ onMouseLeave
  \/ EffectTick

SpecEffects == InitEffects /\ [][NextEffects]_vars

\* ------------------------------------------------- play(), pause(), toggle()
\* video.play() or video.pause() is called: the call is recorded and takes
\* effect in a later step
Request(r) ==
  /\ transportRequests' = Append(transportRequests, r)
  /\ playReqs' = IF r = "play" THEN playReqs + 1 ELSE playReqs
  /\ pauseReqs' = IF r = "pause" THEN pauseReqs + 1 ELSE pauseReqs

NoRequest == UNCHANGED << transportRequests, playReqs, pauseReqs >>

RequestsLeft == playReqs < MaxRequests /\ pauseReqs < MaxRequests

\* the last two values of video.paused read by toggles made with no call
\* pending, this one included
Chain(seen, paused) ==
  IF Len(seen) = 2 THEN << seen[2], paused >> ELSE Append(seen, paused)

\* a toggle that calls video.play() whatever video.paused is
toggleAlwaysPlays ==
  /\ toggles < MaxToggles /\ RequestsLeft
  /\ toggles' = toggles + 1
  /\ IF ~mounted
       THEN NoRequest /\ origin' = << >>
       ELSE /\ Request("play")
            /\ origin' = IF transportRequests = << >>
                           THEN Chain(origin, videoPaused) ELSE << >>
  /\ UNCHANGED << mounted, videoPaused >>
  /\ UNCHANGED notTransport

\* toggle(): nothing without a video element; video.play() when video.paused,
\* video.pause() otherwise
toggle ==
  /\ toggles < MaxToggles /\ RequestsLeft
  /\ toggles' = toggles + 1
  /\ IF ~mounted
       THEN NoRequest /\ origin' = << >>
       ELSE /\ IF videoPaused THEN Request("play") ELSE Request("pause")
            /\ origin' = IF transportRequests = << >>
                           THEN Chain(origin, videoPaused) ELSE << >>
  /\ UNCHANGED << mounted, videoPaused >>
  /\ UNCHANGED notTransport

\* play(): videoRef.current?.play()
play ==
  /\ mounted /\ RequestsLeft
  /\ Request("play")
  /\ origin' = << >>
  /\ UNCHANGED << mounted, videoPaused, toggles >>
  /\ UNCHANGED notTransport

\* pause(): videoRef.current?.pause()
pause ==
  /\ mounted /\ RequestsLeft
  /\ Request("pause")
  /\ origin' = << >>
  /\ UNCHANGED << mounted, videoPaused, toggles >>
  /\ UNCHANGED notTransport

\* the oldest pending call takes effect on the video
RequestTakesEffect ==
  /\ transportRequests # << >>
  /\ videoPaused' = (Head(transportRequests) = "pause")
  /\ transportRequests' = Tail(transportRequests)
  /\ UNCHANGED << mounted, toggles, playReqs, pauseReqs, origin >>
  /\ UNCHANGED notTransport

\* the component unmounts: videoRef.current is null from now on
VideoDetached ==
  /\ mounted
  /\ mounted' = FALSE
  /\ transportRequests' = << >>
  /\ origin' = << >>
  /\ UNCHANGED << videoPaused, toggles, playReqs, pauseReqs >>
  /\ UNCHANGED notTransport

NextTransport ==
  \/ toggle
  \/ play
  \/ pause
  \/ RequestTakesEffect
  \/ VideoDetached

SpecTransport == Init /\ [][NextTransport]_vars

\* ------------------------------------------------ render's statistics phase
RECURSIVE SumSeq(_)
SumSeq(q) == IF q = << >> THEN 0 ELSE Head(q) + SumSeq(Tail(q))

\* average(frameTimes)
average(q) == Frac(SumSeq(q), Len(q))

\* a window that only grows
pushFrameTimeUncapped(times, t) == Append(times, t)

\* frameTimesRef.current.push(frameTime), then a shift() when the window holds
\* more entries than it keeps
pushFrameTime(times, t) ==
  LET pushed == Append(times, t)
  IN  IF Len(pushed) > MaxWindow THEN shift(pushed) ELSE pushed

\* the durations a frame can take
FrameTimes == {1, 2}

\* one tick of render, as far as statistics go: it returns at the guard when
\* the video is paused; a setter that throws ends it before the draw call;
\* otherwise it draws and runs the statistics phase, which reports when a
\* second or more has passed since the last report
StatsTick ==
  /\ \E threw \in BOOLEAN, frameTime \in FrameTimes, hasOnStats \in BOOLEAN :
       IF videoPaused \/ threw
         THEN /\ lastTick' = IF videoPaused THEN "aborted" ELSE "threw"
              /\ delivered' = NoStats
              /\ UNCHANGED << frameCountRef, frameTimesRef, lastFpsTimeRef, stats >>
         ELSE /\ frameTimesRef' = pushFrameTime(frameTimesRef, frameTime)
              /\ IF now - lastFpsTimeRef >= 1
                   THEN LET report == [fps |-> frameCountRef + 1,
                                       frameTime |-> average(frameTimesRef')]
                        IN  /\ stats' = report
                            /\ delivered' = IF hasOnStats THEN report ELSE NoStats
                            /\ frameCountRef' = 0
                            /\ lastFpsTimeRef' = now
                            /\ lastTick' = "reported"
                   ELSE /\ frameCountRef < MaxFrames
                        /\ frameCountRef' = frameCountRef + 1
                        /\ delivered' = NoStats
                        /\ lastTick' = "drawn"
                        /\ UNCHANGED << lastFpsTimeRef, stats >>
  /\ UNCHANGED << videoPaused, rippleVars >>
  /\ UNCHANGED notStats

\* performance.now() advances by a second
StatsClock ==
  /\ now < MaxTime
  /\ now' = now + 1
  /\ lastTick' = "none"
  /\ delivered' = NoStats
  /\ UNCHANGED << frameCountRef, frameTimesRef, lastFpsTimeRef, stats, videoPaused >>
  /\ UNCHANGED << ripplesRef, rippleEnabledRef, clicks, rippleUpload >>
  /\ UNCHANGED notStats

\* the video starts or stops playing
StatsSourceToggle ==
  /\ videoPaused' = ~videoPaused
  /\ lastTick' = "none"
  /\ delivered' = NoStats
  /\ UNCHANGED << frameCountRef, frameTimesRef, lastFpsTimeRef, stats >>
  /\ UNCHANGED rippleVars
  /\ UNCHANGED notStats

NextStats ==
  \/ StatsTick
  \/ StatsClock
  \/ StatsSourceToggle

SpecStats == Init /\ [][NextStats]_vars

\* =================================================================== claims
InvocationsIn(log, id) ==
  Cardinality({ i \in 1 .. Len(log) : log[i].k = "invoke" /\ log[i].id = id })

Logged(k) == \E i \in 1 .. Len(lastStep.log) : lastStep.log[i].k = k

EntriesFor(m, id) == Cardinality({ i \in 1 .. Len(m) : m[i].id = id })

\* C1: when a setter throws during a tick, every setter registered at that
\* moment is still invoked in that tick, the draw call is issued and the next
\* tick is requested (the frame is not aborted).
C1_ThrowIsolated ==
  lastStep.kind = "threw" =>
    /\ \A id \in Keys(uniformSettersRef) : InvocationsIn(lastStep.log, id) = 1
    /\ Logged("draw")
    /\ Logged("request")

\* C2: at every moment at most one render callback is scheduled, for any
\* sequence of play, pause, ended, re-initialization and tick events.
C2_AtMostOneTick == Cardinality(rafs) <= 1

\* C3: while the source is paused, a tick that runs uploads nothing, invokes no
\* setter and draws nothing, and no step schedules a tick except the handling
\* of a play event.
C3_PausedTickIdle ==
  [][ videoPaused =>
        /\ lastStep'.kind \notin {"threw", "done"}
        /\ lastStep'.log = << >>
        /\ \/ rafs' \subseteq rafs
           \/ /\ eventQueue # << >>
              /\ Head(eventQueue) = "play"
              /\ eventQueue' = Tail(eventQueue) ]_vars

\* C3 witness: the source went to paused while the loop was running (the pause
\* event is not handled yet) and the scheduled tick ran and did nothing.
C3_Witness ==
  /\ lastStep.kind = "aborted"
  /\ videoPaused /\ ~videoEnded
  /\ mounted /\ glRef # Null /\ programRef # Null /\ uniformLocationsRef # Null
  /\ isPlaying
  /\ eventQueue = << "pause" >>
  /\ rafs = {}

\* C4: a tick that runs to its draw call has invoked every setter in the
\* registry exactly once and no setter that is not in the registry.
C4_EachSetterOnce ==
  lastStep.kind = "done" =>
    \A id \in Ids :
      InvocationsIn(lastStep.log, id) = IF id \in Keys(uniformSettersRef) THEN 1 ELSE 0

\* C4 witness: a completed tick over two registered setters, after a
\* registration that replaced an earlier one.
C4_Witness ==
  /\ lastStep.kind = "done"
  /\ Len(uniformSettersRef) = 2
  /\ lastReg = "replaced"

\* C5: registering a setter under an id leaves exactly one entry for that id,
\* holding the setter registered last, and leaves the other ids' entries alone;
\* a tick invokes for an id only the setter the registry holds for it, at most
\* once.
C5_ReplaceNotDuplicate ==
  [][ /\ \A id \in Ids, cb \in Callbacks :
           registerUniformSetter(id, cb) =>
             /\ EntriesFor(uniformSettersRef', id) = 1
             /\ MapGet(uniformSettersRef', id) = cb
             /\ SelectSeq(uniformSettersRef', LAMBDA e : e.id # id)
                  = SelectSeq(uniformSettersRef, LAMBDA e : e.id # id)
      /\ \A i \in 1 .. Len(lastStep'.log) :
           lastStep'.log[i].k = "invoke" =>
             /\ lastStep'.log[i].id \in Keys(uniformSettersRef')
             /\ lastStep'.log[i].cb = MapGet(uniformSettersRef', lastStep'.log[i].id)
             /\ InvocationsIn(lastStep'.log, lastStep'.log[i].id) = 1
    ]_vars

\* C5 witness: a setter replaced a different setter under the same id and the
\* following tick completed, invoking what the registry holds.
C5_Witness ==
  /\ lastStep.kind = "done"
  /\ lastReg = "replaced"
  /\ Logged("invoke")

\* C6: unregister removes the id from the registry, and a tick invokes no
\* setter for an id that is not in the registry.
C6_UnregisteredNotInvoked ==
  [][ /\ \A id \in Ids :
           unregisterUniformSetter(id) => id \notin Keys(uniformSettersRef')
      /\ \A id \in Ids \ Keys(uniformSettersRef') :
           InvocationsIn(lastStep'.log, id) = 0
    ]_vars

\* C6 witness: a registered id was unregistered, and the next tick completed,
\* invoking the setter that stayed registered.
C6_Witness ==
  /\ lastStep.kind = "done"
  /\ lastReg = "removed"
  /\ Len(uniformSettersRef) = 1
  /\ Logged("invoke")

\* C7: unregister of an id that is not registered leaves the registry as it
\* is, unregister never touches the entries of other ids, and a second
\* unregister of the same id changes nothing more.
C7_UnregisterIdempotent ==
  [][ \A id \in Ids :
        unregisterUniformSetter(id) =>
          /\ id \notin Keys(uniformSettersRef) => uniformSettersRef' = uniformSettersRef
          /\ uniformSettersRef' = SelectSeq(uniformSettersRef, LAMBDA e : e.id # id)
          /\ MapDelete(uniformSettersRef', id) = uniformSettersRef' ]_vars

\* C7 witness: unregister ran for an id that was not registered while another
\* id was.
C7_Witness ==
  /\ lastReg = "absent"
  /\ Len(uniformSettersRef) >= 1

\* C8: after the handling of a pause event, of an ended event, or a teardown,
\* no render callback remains scheduled.
C8_StopCancelsAll ==
  [][ (handlePause \/ handleEnded \/ Teardown) => rafs' = {} ]_vars

InitAttempt == handleLoadedMetadata \/ Resize \/ (ParamChange /\ metadataLoaded)

\* C11: after an initialization that failed (no GPU objects were created),
\* isReady is false and no program, texture or uniform-table handle is
\* retained.
C11_FailedInitRetainsNothing ==
  [][ (InitAttempt /\ inits' = inits) =>
        /\ ~isReady'
        /\ programRef' = Null
        /\ videoTextureRef' = Null
        /\ atlasTextureRef' = Null
        /\ uniformLocationsRef' = Null ]_vars

\* C12: isReady is true after an initialization cycle only when the cycle ran
\* to its end (it starts the cycle false, also when the pipeline was ready
\* before), and it changes in no step other than an initialization cycle or
\* a teardown.
C12_ReadyOncePerCycle ==
  [][ /\ (InitAttempt /\ isReady') => inits' = inits + 1
      /\ (isReady' # isReady) => (InitAttempt \/ Teardown) ]_vars

C14_RippleRing ==
  [][ /\ Len(ripplesRef') <= MAX_RIPPLES
      /\ \A i, j \in 1 .. Len(ripplesRef') :
           i < j => ripplesRef'[i].n > ripplesRef'[j].n
      /\ (onClick /\ rippleEnabledRef) =>
           /\ ripplesRef'[1] = Ripple(clicks + 1, now)
           /\ IF Len(ripplesRef) = MAX_RIPPLES
                THEN Tail(ripplesRef') = SubSeq(ripplesRef, 1, MAX_RIPPLES - 1)
                ELSE Tail(ripplesRef') = ripplesRef ]_vars

\* C14 witness: a ninth ripple was spawned while eight were active: the first
\* one is gone, the other eight are there.
C14_Witness ==
  /\ Len(ripplesRef) = MAX_RIPPLES
  /\ ripplesRef[1].n = MAX_RIPPLES + 1
  /\ ripplesRef[MAX_RIPPLES].n = 2

\* C15: the grid handed to the shader has at least one column and at least
\* one row, for every column count >= 1 and every source width and height
\* >= 1.
C15_GridNeverZero == dimensions.cols >= 1 /\ dimensions.rows >= 1

C17_IndexMonotonic ==
  [][ (UNCHANGED << u_audioLevel, u_audioReactivity, u_audioSensitivity,
                    u_brightness, u_numChars >>
       /\ FracLeq(baseBrightness, baseBrightness'))
        => charIndex <= charIndex' ]_vars

\* C17 witness: a pixel of medium brightness mapped to a glyph strictly
\* between the first and the last, without audio modulation.
C17_Witness ==
  /\ u_audioReactivity = Frac(0, 1)
  /\ u_brightness = Frac(1, 1)
  /\ baseBrightness = Frac(1, 2)
  /\ charIndex > 0
  /\ charIndex < u_numChars - 1

\* C18: with audio level 0 and reactivity 1 the modulated brightness is the
\* base brightness times 0.3, whatever the audio sensitivity.
C18_SilenceFloor ==
  (u_audioLevel = Frac(0, 1) /\ u_audioReactivity = Frac(1, 1))
    => brightness = FracMul(baseBrightness, Frac(3, 10))

\* C19: a tick that runs while the source is paused, ended, or has no decoded
\* frame yet uploads nothing, invokes no setter and draws nothing.
C19_NoWorkWithoutFrame ==
  [][ /\ (videoPaused \/ videoEnded) => lastStep'.log = << >>
      /\ \A id \in rafs, thrower \in Ids \cup {NoThrow} :
           render(id, thrower, FALSE) => lastStep'.log = << >> ]_vars

C21_IsPlayingControlsPlayback ==
  [][ /\ (isReady' /\ ~isPlayingProp /\ isPlayingProp') => lastCall' = "play"
      /\ (isReady' /\ isPlayingProp /\ ~isPlayingProp') => lastCall' = "pause"
    ]_vars

\* C22: a tick that runs to its end did, in this order: one texture upload,
\* every registered setter, one draw call, the statistics update, one request
\* for the next tick; in any tick no setter runs before the upload or after
\* the draw, and a tick is requested only after the draw.
C22_TickOrder ==
  LET log == lastStep.log
      n   == Len(log)
  IN  /\ lastStep.kind = "done" =>
           /\ n = Len(uniformSettersRef) + 4
           /\ log[1].k = "upload"
           /\ \A i \in 2 .. (n - 3) : log[i].k = "invoke"
           /\ log[n - 2].k = "draw"
           /\ log[n - 1].k = "stats"
           /\ log[n].k = "request"
      /\ lastStep.kind = "threw" =>
           /\ log[1].k = "upload"
           /\ \A i \in 2 .. n : log[i].k = "invoke"
      /\ \A i, j \in 1 .. n :
           /\ (log[i].k = "invoke" /\ log[j].k = "upload") => j < i
           /\ (log[i].k = "invoke" /\ log[j].k = "draw") => i < j
           /\ (log[i].k = "request" /\ log[j].k = "draw") => j < i
      /\ Logged("request") => Logged("draw")

\* C22 witness: a completed tick over two setters, the ripple setter
\* registered before the mouse setter.
C22_Witness ==
  /\ lastStep.kind = "done"
  /\ Len(lastStep.log) = 6
  /\ lastStep.log[2].id = "ripple"
  /\ lastStep.log[3].id = "mouse"
  /\ lastStep.log[4].k = "draw"

\* C23: whenever the pipeline is initialized and ready and the source is
\* playing (its play event, if any, already handled), a render callback is
\* scheduled.
C23_LoopNeverStalls ==
  ( /\ mounted /\ isReady
    /\ glRef # Null /\ programRef # Null /\ uniformLocationsRef # Null
    /\ ~videoPaused /\ ~videoEnded
    /\ \A i \in 1 .. Len(eventQueue) : eventQueue[i] # "play" )
  => rafs # {}

\* the listener of event e ran: the event left the head of the queue of a
\* mounted component
Handled(e) ==
  /\ mounted
  /\ eventQueue # << >>
  /\ Head(eventQueue) = e
  /\ eventQueue' = Tail(eventQueue)

C25_HungSourceKeepsTicking ==
  [][ \A id \in rafs, thrower \in Ids \cup {NoThrow} :
        ( /\ render(id, thrower, FALSE)
          /\ mounted /\ glRef # Null /\ programRef # Null
          /\ uniformLocationsRef # Null
          /\ ~videoPaused /\ ~videoEnded )
        => /\ lastStep'.kind = "aborted"
           /\ lastStep'.log = << >>
           /\ rafs' # {} ]_vars

\* C26: the GPU objects created and not deleted are at most one program, one
\* video texture and one atlas texture: the ones the refs hold.
C26_OneLivePipeline ==
  /\ live \subseteq {programRef, videoTextureRef, atlasTextureRef}
  /\ Cardinality(live) <= 3

\* C27: a step that changes the effect registry (a register or an
\* unregister; the cleanup of a teardown aside) leaves the context, the
\* program handle, both textures, the uniform-location table, isReady,
\* isPlaying and the scheduled callbacks as they are, before initialization
\* and after teardown too; hence a step that changes any of these, an
\* initialization or a re-initialization, leaves the registry as it is.
C27_RegistryIndependent ==
  [][ lastStep'.kind \notin {"teardown", "teardownAgain"} =>
        \/ uniformSettersRef' = uniformSettersRef
        \/ UNCHANGED << glRef, programRef, videoTextureRef, atlasTextureRef,
                        uniformLocationsRef, resolveCalls, live, inits,
                        isReady, isPlaying, animationRef, rafs >> ]_vars

\* C27 witness: a setter registered after the teardown of a pipeline that had
\* been initialized.
C27_Witness ==
  /\ ~mounted
  /\ inits >= 1
  /\ live = {}
  /\ Len(uniformSettersRef) >= 1
  /\ lastStep = NoStep

\* C28: a tick (aborted, left by a throwing setter, or completed) leaves the
\* atlas texture, the atlas image, the program, the uniform-location table,
\* the grid dimensions, the effect registry and the set of live GPU objects
\* as they are.
C28_TickWritesOnlyFrameState ==
  [][ lastStep'.kind \in {"aborted", "threw", "done"} =>
        UNCHANGED << atlasTextureRef, atlas, programRef, videoTextureRef,
                     uniformLocationsRef, resolveCalls, dimensions,
                     uniformSettersRef, live, deleteCalls >> ]_vars

\* C28 witness: a completed tick that uploaded a frame and ran two setters on
\* an initialized pipeline.
C28_Witness ==
  /\ lastStep.kind = "done"
  /\ lastStep.log[1] = Upload(TRUE)
  /\ Len(uniformSettersRef) = 2
  /\ atlasTextureRef # Null /\ programRef # Null

\* C30: after the ripple setter ran, no ripple of age maxLifetime or more is
\* in the list, all MAX_RIPPLES slots were written, slot i holding the i-th
\* remaining ripple with enabled 1, or zeros with enabled 0 when there is no
\* i-th ripple.
C30_RippleSlots ==
  rippleUpload # NoUpload =>
    /\ \A i \in 1 .. Len(ripplesRef) : now - ripplesRef[i].startTime < maxLifetime
    /\ DOMAIN rippleUpload = 1 .. MAX_RIPPLES
    /\ \A i \in 1 .. MAX_RIPPLES :
         IF i <= Len(ripplesRef)
           THEN /\ rippleUpload[i].pos = ripplesRef[i].n
                /\ rippleUpload[i].startTime = ripplesRef[i].startTime
                /\ rippleUpload[i].enabled = 1
           ELSE rippleUpload[i].enabled = 0

\* C30 witness: the setter ran after nine clicks, the oldest ripple evicted
\* and others expired: some slots hold ripples, the others are disabled.
C30_Witness ==
  /\ rippleUpload # NoUpload
  /\ clicks = MAX_RIPPLES + 1
  /\ now >= maxLifetime
  /\ Len(ripplesRef) \in 1 .. (MAX_RIPPLES - 1)
  /\ rippleUpload[Len(ripplesRef)].enabled = 1
  /\ rippleUpload[Len(ripplesRef) + 1].enabled = 0

\* C29: the mouse, ripple and audio setters write pairwise disjoint sets of
\* uniforms, and the uniform values after a tick's setter loop are the same
\* for every order in which the same setters could have run.
C29_SetterOrderIrrelevant ==
  [][ setterOrder' # NoOrder =>
        LET host == Host(mouseRef', trailRef', ripplesRef', now', volumeRef')
        IN  /\ \A a, b \in SetterIds :
                 a # b => DOMAIN SetterWrites(a, host)
                            \cap DOMAIN SetterWrites(b, host) = {}
            /\ \A o \in Orders :
                 ApplyAll(o, uniformState, host) = uniformState' ]_vars

\* C29 witness: a tick ran audio, then ripple, then mouse, with the cursor
\* inside the container, a trail and an active ripple.
C29_Witness ==
  /\ setterOrder = << "audio", "ripple", "mouse" >>
  /\ uniformState.u_mouse >= 0
  /\ uniformState.u_trailLength >= 1
  /\ uniformState.u_ripples[1].enabled = 1
  /\ uniformState.u_time = now


\* C31: after a mouse move the trail holds at most trailLength positions; the
\* trail never holds more positions than u_trail has slots and the uploaded
\* u_trailLength is at most the number of slots; every step leaves the trail
\* alone, empties it, or puts the previous cursor position in front of the
\* older positions, which keep their order.
C31_TrailBounded ==
  [][ LET moved == /\ mouseRef' >= 0
                   /\ setterOrder' = NoOrder
                   /\ trailLengthRef' = trailLengthRef
      IN  /\ moved => Len(trailRef') <= trailLengthRef'
          /\ Len(trailRef') <= MaxTrail
          /\ uniformState'.u_trailLength <= MaxTrail
          /\ \/ trailRef' = trailRef
             \/ trailRef' = << >>
             \/ /\ Head(trailRef') = mouseRef
                /\ \A i \in 2 .. Len(trailRef') : trailRef'[i] = trailRef[i - 1] ]_vars

\* C32: no position of the trail is the sentinel -1; whenever the current
\* position is the sentinel (after mount and after a mouse-leave) the trail is
\* empty; the move that takes the cursor from the sentinel to a position inside
\* adds nothing to the trail.
C32_NoSentinelInTrail ==
  [][ /\ \A i \in 1 .. Len(trailRef') : trailRef'[i] # -1
      /\ mouseRef' = -1 => trailRef' = << >>
      /\ (mouseRef = -1 /\ mouseRef' # -1) => trailRef' = << >> ]_vars

\* C32 witness: a tick uploaded a trail of one position or more, the cursor
\* then left, and it has come back with one move: the trail is still empty
C32_Witness ==
  /\ uniformState.u_trailLength >= 1
  /\ mouseRef >= 0
  /\ trailRef = << >>


\* C33: at most one media-element source node is ever created for the video:
\* sourceRef holds nothing or the first source node, whatever play and pause
\* events the video fires while the audio effect is enabled.
C33_SourceCreatedOnce == sourceRef <= 1


\* C34: at every tick that ran a setter and drew, the uniforms of each effect
\* whose setter is not registered are at their disabled values: ripples off
\* and every ripple slot disabled, no cursor and an empty trail, no audio
\* reactivity.
C34_DisabledEffectContributesNothing ==
  [][ setterOrder' # NoOrder =>
        LET off == SetterIds \ Keys(uniformSettersRef')
            u == uniformState'
        IN  /\ "ripple" \in off =>
                 /\ u.u_rippleEnabled = 0
                 /\ \A i \in 1 .. Len(u.u_ripples) : u.u_ripples[i].enabled = 0
            /\ "mouse" \in off => u.u_mouse = -1 /\ u.u_trailLength = 0
            /\ "audio" \in off => u.u_audioReactivity.n = 0 ]_vars


\* C35: a toggle() call with a video element makes exactly one call, play()
\* when video.paused and pause() otherwise; without a video element it makes
\* none; and when the last two toggles were each made with no call pending
\* and the second one's call has taken effect, video.paused is what it was
\* before the first of them.
C35_ToggleRoundTrip ==
  /\ [][ toggles' = toggles + 1 =>
           IF mounted
             THEN /\ Len(transportRequests') = Len(transportRequests) + 1
                  /\ transportRequests'[Len(transportRequests')] =
                       (IF videoPaused THEN "play" ELSE "pause")
                  /\ playReqs' + pauseReqs' = playReqs + pauseReqs + 1
                  /\ playReqs' = playReqs + 1 <=> videoPaused
             ELSE /\ transportRequests' = transportRequests
                  /\ playReqs' = playReqs /\ pauseReqs' = pauseReqs
                  /\ videoPaused' = videoPaused ]_vars
  /\ [](Len(origin) = 2 /\ transportRequests = << >> => videoPaused = origin[1])

\* C35 witness: two toggles, each made with no call pending, the first on a
\* playing video, and both calls have taken effect
C35_Witness ==
  /\ origin = << FALSE, TRUE >>
  /\ transportRequests = << >>
  /\ ~videoPaused
  /\ toggles >= 2


\* C36: the frame-time window never holds more entries than it keeps; a step
\* that changes the frame counter, the window, the report time or the exposed
\* stats is a tick that drew; a tick that reports leaves the frame counter at
\* 0, sets the exposed stats to the report, and passes onStats, when it is
\* called, that same value.
C36_StatsWindowAndReport ==
  /\ [](Len(frameTimesRef) <= MaxWindow)
  /\ [][ /\ (\/ frameCountRef' # frameCountRef
             \/ frameTimesRef' # frameTimesRef
             \/ lastFpsTimeRef' # lastFpsTimeRef
             \/ stats' # stats
             \/ delivered' # NoStats) => lastTick' \in {"drawn", "reported"}
         /\ lastTick' = "reported" =>
              /\ frameCountRef' = 0
              /\ delivered' \in {NoStats, stats'} ]_vars

\* C36 witness: a tick reported to onStats after the window had been full and
\* its oldest entry dropped: more frames were counted than the window holds
C36_Witness ==
  /\ lastTick = "reported"
  /\ delivered = stats
  /\ stats.fps > MaxWindow
  /\ Len(frameTimesRef) = MaxWindow
  /\ frameCountRef = 0

====
